---- MODULE Spec2Model ----
(***************************************************************************)
(* State machine of the Web-Designer canvas editor.                        *)
(*   full variant    : the App component with Rnd blocks, four content     *)
(*                     types and the table-generation backend call         *)
(*   reduced variant : web-designer/src/App.tsx, draw + icon/text only     *)
(* Every React event handler and every asynchronous completion is one      *)
(* atomic action on the component state (handlers run to completion and    *)
(* the next handler sees the committed state).                             *)
(***************************************************************************)
EXTENDS Integers, Sequences, FiniteSets

VARIABLES variant, blocks, selectedId, showModal, promptText,
          isSelecting, startPoint, selectionPreview,
          pending, alertLog, nextId, updateQueue,
          overwritten, lastEvent, issued

vars == <<variant, blocks, selectedId, showModal, promptText,
          isSelecting, startPoint, selectionPreview,
          pending, alertLog, nextId, updateQueue,
          overwritten, lastEvent, issued>>

\* the history variables: no handler reads them, and a specification either
\* leaves them as they are or has them observe the steps it takes
history == <<overwritten, lastEvent, issued>>

(* ------------------------------ bounds --------------------------------- *)
\* number of uuidv4() calls in a run (blocks ever created)
MaxIds == 2
\* number of image reads / table requests in flight at once
MaxPending == 1

(* --------------------------- program values ---------------------------- *)
\* null of selectedId (useState<string | null>(null))
NoId == 0
\* the preview placeholder id "temp"
TempId == -1
\* strict minimum extent of a committed draw gesture
MinSize == 20
\* offset applied by duplicateBlock on both axes
DupOffset == 20
DefaultX == 100
DefaultY == 100
DefaultWidth == 200
DefaultHeight == 150

Pt(px, py) == [x |-> px, y |-> py]

\* surface-local pointer positions delivered with mousedown
AnchorPoints == {Pt(150, 150)}
\* surface-local pointer positions delivered with mousemove: from the anchor
\* (150,150) a 21x20 rectangle and the 100x70 one drawn up and to the left
MovePoints == {Pt(129, 130), Pt(50, 80)}
\* the same with the rectangles around the threshold, in both directions:
\* 20x21 and 21x21 down-right, 21x20 and 21x21 up-left, and a point on the anchor
DrawPoints == MovePoints \cup {Pt(170, 171), Pt(171, 171), Pt(129, 129), Pt(150, 150)}
\* e.target of a mousedown: what the pointer is over
Targets == {"surface", "block", "button", "input", "other"}
\* positions reported by the drag/resize widget
DragPositions == {Pt(30, 40)}
\* sizes reported by the resize widget (parseInt of ref.style.width/height)
ResizeSizes == {[width |-> 10, height |-> 10]}
\* what window.prompt returns: null on cancel, "" on empty, else the text
NullText == "<null>"
PromptReturns == {NullText, "", "hello"}
\* values typed in the table prompt textarea
PromptTexts == {"", "planets"}
\* files handed to addImage and the data URL FileReader produces for each
Files == {"a.png"}
DataUrlOf(file) == IF file = "a.png" THEN "data:image/png;base64,a" ELSE "data:"
\* res.data of a successful generate-table response
TableData == {"rows"}
IconData == "star"
AlertMessage == "Backend error generating table"

NoContent == [type |-> "none", data |-> ""]
Content(t, d) == [type |-> t, data |-> d]

(* ------------------------------ helpers -------------------------------- *)
Min(a, b) == IF a < b THEN a ELSE b
Abs(a) == IF a < 0 THEN -a ELSE a

Ids(bs) == {bs[i].id : i \in 1..Len(bs)}

\* blocks.filter((b) => b.id !== id)
RECURSIVE FilterOut(_, _)
FilterOut(bs, id) ==
  IF bs = <<>> THEN <<>>
  ELSE IF Head(bs).id = id THEN FilterOut(Tail(bs), id)
       ELSE <<Head(bs)>> \o FilterOut(Tail(bs), id)

\* SetContent that keeps a content already there
SetContentIfEmpty(bs, id, c) ==
  [i \in 1..Len(bs) |->
     IF bs[i].id = id /\ bs[i].content = NoContent
     THEN [bs[i] EXCEPT !.content = c]
     ELSE bs[i]]

\* SetContent that adds a block for an id the registry does not hold
SetContentUpsert(bs, id, c) ==
  IF id \in Ids(bs)
  THEN [i \in 1..Len(bs) |-> IF bs[i].id = id THEN [bs[i] EXCEPT !.content = c] ELSE bs[i]]
  ELSE Append(bs, [id |-> id, x |-> DefaultX, y |-> DefaultY, width |-> DefaultWidth,
                   height |-> DefaultHeight, content |-> c])

\* prev.map((b) => (b.id === id ? { ...b, content: c } : b))
SetContent(bs, id, c) ==
  [i \in 1..Len(bs) |-> IF bs[i].id = id THEN [bs[i] EXCEPT !.content = c] ELSE bs[i]]

\* SetPosition that puts the moved block last in the registry
SetPositionBringsToFront(bs, id, d) ==
  FilterOut(bs, id) \o
    SelectSeq([i \in 1..Len(bs) |-> [bs[i] EXCEPT !.x = d.x, !.y = d.y]],
              LAMBDA b : b.id = id)

\* prev.map((b) => (b.id === id ? { ...b, x: d.x, y: d.y } : b))
SetPosition(bs, id, d) ==
  [i \in 1..Len(bs) |-> IF bs[i].id = id THEN [bs[i] EXCEPT !.x = d.x, !.y = d.y] ELSE bs[i]]

\* prev.map((b) => (b.id === id ? { ...b, width, height, ...pos } : b))
SetSize(bs, id, sz, pos) ==
  [i \in 1..Len(bs) |->
     IF bs[i].id = id
     THEN [bs[i] EXCEPT !.width = sz.width, !.height = sz.height, !.x = pos.x, !.y = pos.y]
     ELSE bs[i]]

\* PreviewRect without Math.abs and Math.min
PreviewRectSigned(a, p) ==
  [id |-> TempId,
   x |-> a.x,
   y |-> a.y,
   width |-> p.x - a.x,
   height |-> p.y - a.y,
   content |-> NoContent]

\* the preview rectangle built by handleMouseMove from anchor a and point p
PreviewRect(a, p) ==
  [id |-> TempId,
   x |-> Min(a.x, p.x),
   y |-> Min(a.y, p.y),
   width |-> Abs(p.x - a.x),
   height |-> Abs(p.y - a.y),
   content |-> NoContent]

\* Committable with >= in place of >
CommittableNonStrict(pv) ==
  /\ pv # <<>>
  /\ pv[1].width >= MinSize
  /\ pv[1].height >= MinSize

\* selectionPreview && selectionPreview.width > 20 && selectionPreview.height > 20
Committable(pv) ==
  /\ pv # <<>>
  /\ pv[1].width > MinSize
  /\ pv[1].height > MinSize

\* CommittedBlock that keeps the id of the preview
CommittedBlockKeepsTemp(pv, id) == pv[1]

\* { ...selectionPreview, id: uuidv4() }
CommittedBlock(pv, id) == [pv[1] EXCEPT !.id = id]

\* DuplicateOf that offsets x only
DuplicateOfShiftX(b, id) == [b EXCEPT !.id = id, !.x = b.x + DupOffset]

\* { ...block, id: uuidv4(), x: block.x + 20, y: block.y + 20 }
DuplicateOf(b, id) == [b EXCEPT !.id = id, !.x = b.x + DupOffset, !.y = b.y + DupOffset]

\* blocks.find((b) => b.id === selectedId), as the set of matching indices
SelectedIdx == {i \in 1..Len(blocks) : blocks[i].id = selectedId}
HasSelectedBlock == SelectedIdx # {}
SelectedBlock == blocks[CHOOSE i \in SelectedIdx : \A j \in SelectedIdx : i <= j]

\* Falsy that lets the empty string through
FalsyNullOnly(text) == text = NullText

\* !text
Falsy(text) == text = NullText \/ text = ""

RemoveAt(s, k) == [i \in 1..(Len(s) - 1) |-> IF i < k THEN s[i] ELSE s[i + 1]]

\* history variable: the block whose content was replaced most recently and
\* the content it held before; no handler reads it
NoOverwrite == [id |-> NoId, content |-> NoContent]

\* history variable: the content operation issued most recently, as the id of
\* its target and the type of content it sets
NoneIssued == [id |-> NoId, type |-> "none"]

Full == variant = "full"
Reduced == variant = "reduced"

(* ------------------------------- Init ---------------------------------- *)
Init ==
  /\ variant \in {"full", "reduced"}
  /\ blocks = <<>>
  /\ selectedId = NoId
  /\ showModal = FALSE
  /\ promptText = ""
  /\ isSelecting = FALSE
  /\ startPoint = <<>>
  /\ selectionPreview = <<>>
  /\ pending = <<>>
  /\ alertLog = ""
  /\ nextId = 0
  /\ updateQueue = <<>>
  /\ overwritten = NoOverwrite
  /\ lastEvent = "init"
  /\ issued = NoneIssued

(* ===================== full variant: block actions ===================== *)
\* setBlocks([...blocks, newBlock]); setSelectedId(newBlock.id)
CreateDefaultBlock ==
  /\ Full
  /\ nextId < MaxIds
  /\ blocks' = Append(blocks, [id |-> nextId + 1, x |-> DefaultX, y |-> DefaultY,
                               width |-> DefaultWidth, height |-> DefaultHeight,
                               content |-> NoContent])
  /\ selectedId' = nextId + 1
  /\ nextId' = nextId + 1
  /\ UNCHANGED <<variant, showModal, promptText, isSelecting, startPoint,
                 selectionPreview, pending, alertLog>>

\* DeleteBlock without setSelectedId(null)
DeleteBlockKeepSelection(id) ==
  /\ Full
  /\ blocks' = FilterOut(blocks, id)
  /\ UNCHANGED <<variant, selectedId, showModal, promptText, isSelecting, startPoint,
                 selectionPreview, pending, alertLog, nextId>>

\* deleteBlock(id): setBlocks(blocks.filter(...)); setSelectedId(null)
DeleteBlock(id) ==
  /\ Full
  /\ blocks' = FilterOut(blocks, id)
  /\ selectedId' = NoId
  /\ UNCHANGED <<variant, showModal, promptText, isSelecting, startPoint,
                 selectionPreview, pending, alertLog, nextId>>

\* toolbar button Del: deleteBlock(selectedBlock.id)
ToolbarDelete ==
  /\ HasSelectedBlock
  /\ DeleteBlock(SelectedBlock.id)

\* duplicateBlock(block)
DuplicateBlock(block) ==
  /\ Full
  /\ nextId < MaxIds
  /\ blocks' = Append(blocks, DuplicateOf(block, nextId + 1))
  /\ selectedId' = nextId + 1
  /\ nextId' = nextId + 1
  /\ UNCHANGED <<variant, showModal, promptText, isSelecting, startPoint,
                 selectionPreview, pending, alertLog>>

\* toolbar button Copy: duplicateBlock(selectedBlock)
ToolbarCopy ==
  /\ HasSelectedBlock
  /\ DuplicateBlock(SelectedBlock)

(* ==================== full variant: content actions ==================== *)
AddIcon(id) ==
  /\ Full
  /\ blocks' = SetContent(blocks, id, Content("icon", IconData))
  /\ UNCHANGED <<variant, selectedId, showModal, promptText, isSelecting, startPoint,
                 selectionPreview, pending, alertLog, nextId>>

\* toolbar button Icon: addIcon(selectedBlock.id)
ToolbarIcon ==
  /\ HasSelectedBlock
  /\ AddIcon(SelectedBlock.id)

\* addText(id) where window.prompt returned text
AddText(id, text) ==
  /\ Full
  /\ blocks' = IF Falsy(text) THEN blocks ELSE SetContent(blocks, id, Content("text", text))
  /\ UNCHANGED <<variant, selectedId, showModal, promptText, isSelecting, startPoint,
                 selectionPreview, pending, alertLog, nextId>>

\* toolbar button Text: addText(selectedBlock.id)
ToolbarText ==
  /\ HasSelectedBlock
  /\ \E text \in PromptReturns : AddText(SelectedBlock.id, text)

\* addImage(id, file): reader.readAsDataURL(file) starts the read
AddImage(id, file) ==
  /\ Full
  /\ Len(pending) < MaxPending
  /\ pending' = Append(pending, [kind |-> "image", id |-> id, data |-> file])
  /\ UNCHANGED <<variant, blocks, selectedId, showModal, promptText, isSelecting,
                 startPoint, selectionPreview, alertLog, nextId>>

\* file input onChange: addImage(selectedBlock.id, e.target.files[0])
ToolbarImage ==
  /\ HasSelectedBlock
  /\ \E file \in Files : AddImage(SelectedBlock.id, file)

\* reader.onload of the k-th request in flight
ImageLoaded(k) ==
  /\ Full
  /\ k \in 1..Len(pending)
  /\ pending[k].kind = "image"
  /\ blocks' = SetContent(blocks, pending[k].id, Content("image", DataUrlOf(pending[k].data)))
  /\ pending' = RemoveAt(pending, k)
  /\ UNCHANGED <<variant, selectedId, showModal, promptText, isSelecting, startPoint,
                 selectionPreview, alertLog, nextId>>

\* React 18 batches a setBlocks call made outside a React event handler (in
\* reader.onload, after an await) and renders it in a later task.  Until then
\* the update waits in the hook's queue and every handler still closes over the
\* blocks of the last render.  updateQueue holds the waiting functional updates
\* prev => prev.map(b => b.id === id ? {...b, content} : b), oldest first.
RECURSIVE ApplyQueue(_, _)
ApplyQueue(q, bs) ==
  IF q = <<>> THEN bs
  ELSE ApplyQueue(Tail(q), SetContent(bs, Head(q).id, Head(q).content))

\* the registry React holds: the rendered blocks with the waiting updates applied
Registry == ApplyQueue(updateQueue, blocks)

\* reader.onload of the k-th request in flight when its setBlocks is batched
ImageLoadedDeferred(k) ==
  /\ Full
  /\ k \in 1..Len(pending)
  /\ pending[k].kind = "image"
  /\ Len(updateQueue) < MaxPending
  /\ updateQueue' = Append(updateQueue,
                           [id |-> pending[k].id,
                            content |-> Content("image", DataUrlOf(pending[k].data))])
  /\ pending' = RemoveAt(pending, k)
  /\ UNCHANGED <<variant, blocks, selectedId, showModal, promptText, isSelecting,
                 startPoint, selectionPreview, alertLog, nextId>>

\* React renders the batched updates: the component function runs again and
\* its handlers close over the new blocks
Render ==
  /\ updateQueue # <<>>
  /\ blocks' = Registry
  /\ updateQueue' = <<>>
  /\ UNCHANGED <<variant, selectedId, showModal, promptText, isSelecting, startPoint,
                 selectionPreview, pending, alertLog, nextId>>

\* toolbar button Table: setShowModal(true)
OpenModal ==
  /\ Full
  /\ HasSelectedBlock
  /\ showModal' = TRUE
  /\ UNCHANGED <<variant, blocks, selectedId, promptText, isSelecting, startPoint,
                 selectionPreview, pending, alertLog, nextId>>

\* modal button Cancel: setShowModal(false)
CancelModal ==
  /\ Full
  /\ showModal
  /\ showModal' = FALSE
  /\ UNCHANGED <<variant, blocks, selectedId, promptText, isSelecting, startPoint,
                 selectionPreview, pending, alertLog, nextId>>

\* textarea onChange: setPromptText(e.target.value)
ChangePromptText(text) ==
  /\ Full
  /\ showModal
  /\ promptText' = text
  /\ UNCHANGED <<variant, blocks, selectedId, showModal, isSelecting, startPoint,
                 selectionPreview, pending, alertLog, nextId>>

\* modal button Generate: sendTablePrompt up to the await; the request body
\* { prompt: promptText } leaves with the call, the continuation keeps the
\* selectedId of the render that was clicked
SendTablePrompt ==
  /\ Full
  /\ showModal
  /\ Len(pending) < MaxPending
  /\ pending' = Append(pending, [kind |-> "table", id |-> selectedId, data |-> ""])
  /\ UNCHANGED <<variant, blocks, selectedId, showModal, promptText, isSelecting,
                 startPoint, selectionPreview, alertLog, nextId>>

\* TableSuccess that reads selectedId when the response arrives
TableSuccessOnCurrentSelection(k, data) ==
  /\ Full
  /\ k \in 1..Len(pending)
  /\ pending[k].kind = "table"
  /\ blocks' = SetContent(blocks, selectedId, Content("table", data))
  /\ showModal' = FALSE
  /\ promptText' = ""
  /\ pending' = RemoveAt(pending, k)
  /\ UNCHANGED <<variant, selectedId, isSelecting, startPoint, selectionPreview,
                 alertLog, nextId>>

\* sendTablePrompt after the await, request k resolved with res.data = data
TableSuccess(k, data) ==
  /\ Full
  /\ k \in 1..Len(pending)
  /\ pending[k].kind = "table"
  /\ blocks' = SetContent(blocks, pending[k].id, Content("table", data))
  /\ showModal' = FALSE
  /\ promptText' = ""
  /\ pending' = RemoveAt(pending, k)
  /\ UNCHANGED <<variant, selectedId, isSelecting, startPoint, selectionPreview,
                 alertLog, nextId>>

\* TableFailure that closes the dialog as the success path does
TableFailureClosesModal(k) ==
  /\ Full
  /\ k \in 1..Len(pending)
  /\ pending[k].kind = "table"
  /\ alertLog' = AlertMessage
  /\ showModal' = FALSE
  /\ promptText' = ""
  /\ pending' = RemoveAt(pending, k)
  /\ UNCHANGED <<variant, blocks, selectedId, isSelecting, startPoint,
                 selectionPreview, nextId>>

\* sendTablePrompt catch branch, request k rejected
TableFailure(k) ==
  /\ Full
  /\ k \in 1..Len(pending)
  /\ pending[k].kind = "table"
  /\ alertLog' = AlertMessage
  /\ pending' = RemoveAt(pending, k)
  /\ UNCHANGED <<variant, blocks, selectedId, showModal, promptText, isSelecting,
                 startPoint, selectionPreview, nextId>>

(* ===================== full variant: pointer events ==================== *)
\* target.closest(".rnd-block") || tagName === "BUTTON" || tagName === "INPUT"
IgnoredTarget(target) == target \in {"block", "button", "input"}

\* the element the pointer is over exists and can be hit
TargetPresent(target) ==
  /\ target = "block" => (blocks # <<>> /\ ~showModal)
  /\ target = "input" => HasSelectedBlock

HandleMouseDown(target, p) ==
  /\ Full
  /\ TargetPresent(target)
  /\ IF IgnoredTarget(target)
     THEN UNCHANGED <<isSelecting, startPoint, selectedId>>
     ELSE /\ isSelecting' = TRUE
          /\ startPoint' = <<p>>
          /\ selectedId' = NoId
  /\ UNCHANGED <<variant, blocks, showModal, promptText, selectionPreview,
                 pending, alertLog, nextId>>

HandleMouseMove(p) ==
  /\ Full
  /\ IF ~isSelecting \/ startPoint = <<>>
     THEN UNCHANGED selectionPreview
     ELSE selectionPreview' = <<PreviewRect(startPoint[1], p)>>
  /\ UNCHANGED <<variant, blocks, selectedId, showModal, promptText, isSelecting,
                 startPoint, pending, alertLog, nextId>>

HandleMouseUp ==
  /\ Full
  /\ IF Committable(selectionPreview)
     THEN /\ nextId < MaxIds
          /\ blocks' = Append(blocks, CommittedBlock(selectionPreview, nextId + 1))
          /\ selectedId' = nextId + 1
          /\ nextId' = nextId + 1
     ELSE UNCHANGED <<blocks, selectedId, nextId>>
  /\ isSelecting' = FALSE
  /\ startPoint' = <<>>
  /\ selectionPreview' = <<>>
  /\ UNCHANGED <<variant, showModal, promptText, pending, alertLog>>

\* Rnd onClick: e.stopPropagation(); setSelectedId(block.id)
OnClickBlock(id) ==
  /\ Full
  /\ ~showModal
  /\ id \in Ids(blocks)
  /\ selectedId' = id
  /\ UNCHANGED <<variant, blocks, showModal, promptText, isSelecting, startPoint,
                 selectionPreview, pending, alertLog, nextId>>

\* Rnd onDragStop with the widget's final position d
OnDragStop(id, d) ==
  /\ Full
  /\ ~showModal
  /\ id \in Ids(blocks)
  /\ blocks' = SetPosition(blocks, id, d)
  /\ UNCHANGED <<variant, selectedId, showModal, promptText, isSelecting, startPoint,
                 selectionPreview, pending, alertLog, nextId>>

\* Rnd onResizeStop with the widget's final size sz and position pos
OnResizeStop(id, sz, pos) ==
  /\ Full
  /\ ~showModal
  /\ id \in Ids(blocks)
  /\ blocks' = SetSize(blocks, id, sz, pos)
  /\ UNCHANGED <<variant, selectedId, showModal, promptText, isSelecting, startPoint,
                 selectionPreview, pending, alertLog, nextId>>

(* =========================== reduced variant =========================== *)
\* what the pointer can be over in the reduced variant
TargetPresentR(target) ==
  /\ target \in {"surface", "block", "button"}
  /\ target = "block" => blocks # <<>>
  /\ target = "button" => HasSelectedBlock

HandleMouseDownR(target, p) ==
  /\ Reduced
  /\ TargetPresentR(target)
  /\ isSelecting' = TRUE
  /\ startPoint' = <<p>>
  /\ selectionPreview' = <<>>
  /\ selectedId' = NoId
  /\ UNCHANGED <<variant, blocks, showModal, promptText, pending, alertLog, nextId>>

HandleMouseMoveR(p) ==
  /\ Reduced
  /\ IF ~isSelecting \/ startPoint = <<>>
     THEN UNCHANGED selectionPreview
     ELSE selectionPreview' = <<PreviewRect(startPoint[1], p)>>
  /\ UNCHANGED <<variant, blocks, selectedId, showModal, promptText, isSelecting,
                 startPoint, pending, alertLog, nextId>>

\* HandleMouseUpR without setSelection(null)
HandleMouseUpRKeepsPreview ==
  /\ Reduced
  /\ IF Committable(selectionPreview)
     THEN /\ nextId < MaxIds
          /\ blocks' = Append(blocks, CommittedBlock(selectionPreview, nextId + 1))
          /\ nextId' = nextId + 1
     ELSE UNCHANGED <<blocks, nextId>>
  /\ isSelecting' = FALSE
  /\ UNCHANGED <<variant, selectedId, showModal, promptText, startPoint,
                 selectionPreview, pending, alertLog>>

\* handleMouseUp of the reduced variant
HandleMouseUpR ==
  /\ Reduced
  /\ IF Committable(selectionPreview)
     THEN /\ nextId < MaxIds
          /\ blocks' = Append(blocks, CommittedBlock(selectionPreview, nextId + 1))
          /\ nextId' = nextId + 1
     ELSE UNCHANGED <<blocks, nextId>>
  /\ isSelecting' = FALSE
  /\ selectionPreview' = <<>>
  /\ UNCHANGED <<variant, selectedId, showModal, promptText, startPoint, pending, alertLog>>

\* block div onClick: e.stopPropagation(); setSelectedBlockId(block.id)
OnClickBlockR(id) ==
  /\ Reduced
  /\ id \in Ids(blocks)
  /\ selectedId' = id
  /\ UNCHANGED <<variant, blocks, showModal, promptText, isSelecting, startPoint,
                 selectionPreview, pending, alertLog, nextId>>

AddIconToBlock(id) ==
  /\ Reduced
  /\ blocks' = SetContent(blocks, id, Content("icon", IconData))
  /\ UNCHANGED <<variant, selectedId, showModal, promptText, isSelecting, startPoint,
                 selectionPreview, pending, alertLog, nextId>>

AddTextToBlock(id, text) ==
  /\ Reduced
  /\ blocks' = IF Falsy(text) THEN blocks ELSE SetContent(blocks, id, Content("text", text))
  /\ UNCHANGED <<variant, selectedId, showModal, promptText, isSelecting, startPoint,
                 selectionPreview, pending, alertLog, nextId>>

\* toolbar buttons Add Icon / Add Text
ToolbarIconR ==
  /\ HasSelectedBlock
  /\ AddIconToBlock(SelectedBlock.id)

ToolbarTextR ==
  /\ HasSelectedBlock
  /\ \E text \in PromptReturns : AddTextToBlock(SelectedBlock.id, text)

(* ============================ specification ============================ *)
\* the user closes the alert box; alert() blocks the UI thread until then
DismissAlert ==
  /\ alertLog # ""
  /\ alertLog' = ""
  /\ UNCHANGED <<variant, blocks, selectedId, showModal, promptText, isSelecting,
                 startPoint, selectionPreview, pending, nextId, updateQueue>>

\* a handler runs while no alert box is open, and React has rendered every
\* state update before it runs (updateQueue is empty and stays empty); the
\* history variables stay as they are unless a specification observes them
Handler(A) == alertLog = "" /\ A /\ UNCHANGED <<updateQueue, history>>

Next ==
  \/ Handler(CreateDefaultBlock)
  \/ Handler(ToolbarDelete)
  \/ Handler(ToolbarCopy)
  \/ Handler(ToolbarIcon)
  \/ Handler(ToolbarText)
  \/ Handler(ToolbarImage)
  \/ \E k \in 1..MaxPending + 1 : Handler(ImageLoaded(k))
  \/ Handler(OpenModal)
  \/ Handler(CancelModal)
  \/ \E text \in PromptTexts : Handler(ChangePromptText(text))
  \/ Handler(SendTablePrompt)
  \/ \E k \in 1..MaxPending + 1, data \in TableData : Handler(TableSuccess(k, data))
  \/ \E k \in 1..MaxPending + 1 : Handler(TableFailure(k))
  \/ \E target \in Targets, p \in AnchorPoints : Handler(HandleMouseDown(target, p))
  \/ \E p \in MovePoints : Handler(HandleMouseMove(p))
  \/ Handler(HandleMouseUp)
  \/ \E id \in 1..MaxIds + 1 : Handler(OnClickBlock(id))
  \/ \E id \in 1..MaxIds + 1, d \in DragPositions : Handler(OnDragStop(id, d))
  \/ \E id \in 1..MaxIds + 1, sz \in ResizeSizes, pos \in DragPositions :
       Handler(OnResizeStop(id, sz, pos))
  \/ \E target \in Targets, p \in AnchorPoints : Handler(HandleMouseDownR(target, p))
  \/ \E p \in MovePoints : Handler(HandleMouseMoveR(p))
  \/ Handler(HandleMouseUpR)
  \/ \E id \in 1..MaxIds + 1 : Handler(OnClickBlockR(id))
  \/ Handler(ToolbarIconR)
  \/ Handler(ToolbarTextR)
  \/ DismissAlert /\ UNCHANGED <<updateQueue, history>>

Spec == Init /\ [][Next]_vars

\* the registry and content operations called directly, with any id of the
\* registry and not only the one the toolbar passes
NextApi ==
  \/ Handler(CreateDefaultBlock)
  \/ \E id \in 1..MaxIds + 1 : id \in Ids(blocks) /\ Handler(DeleteBlock(id))
  \/ \E i \in 1..MaxIds + 1 : i <= Len(blocks) /\ Handler(DuplicateBlock(blocks[i]))
  \/ \E id \in 1..MaxIds + 1 : id \in Ids(blocks) /\ Handler(AddIcon(id))
  \/ \E id \in 1..MaxIds + 1, text \in PromptReturns :
       id \in Ids(blocks) /\ Handler(AddText(id, text))
  \/ \E id \in 1..MaxIds + 1 : Handler(OnClickBlock(id))
  \/ \E id \in 1..MaxIds + 1, d \in DragPositions : Handler(OnDragStop(id, d))
  \/ \E id \in 1..MaxIds + 1, sz \in ResizeSizes, pos \in DragPositions :
       Handler(OnResizeStop(id, sz, pos))

SpecApi == Init /\ [][NextApi]_vars

\* the draw gesture on its own, with the pointer positions around the threshold
NextDraw ==
  \/ Handler(CreateDefaultBlock)
  \/ Handler(ToolbarDelete)
  \/ \E target \in Targets, p \in AnchorPoints : Handler(HandleMouseDown(target, p))
  \/ \E p \in DrawPoints : Handler(HandleMouseMove(p))
  \/ Handler(HandleMouseUp)
  \/ \E id \in 1..MaxIds + 1 : Handler(OnClickBlock(id))
  \/ \E target \in Targets, p \in AnchorPoints : Handler(HandleMouseDownR(target, p))
  \/ \E p \in DrawPoints : Handler(HandleMouseMoveR(p))
  \/ Handler(HandleMouseUpR)
  \/ \E id \in 1..MaxIds + 1 : Handler(OnClickBlockR(id))

SpecDraw == Init /\ [][NextDraw]_vars

\* the content operations of both variants, observed by the history variable
ContentChanged(i) ==
  /\ i <= Len(blocks')
  /\ blocks'[i].id = blocks[i].id
  /\ blocks'[i].content # blocks[i].content

Observe ==
  overwritten' =
    IF \E i \in 1..Len(blocks) : ContentChanged(i)
    THEN LET i == CHOOSE j \in 1..Len(blocks) : ContentChanged(j)
         IN [id |-> blocks[i].id, content |-> blocks[i].content]
    ELSE overwritten

Observed(A) == alertLog = "" /\ A /\ Observe /\ UNCHANGED <<updateQueue, lastEvent, issued>>

NextContent ==
  \/ Observed(CreateDefaultBlock)
  \/ Observed(ToolbarIcon)
  \/ Observed(ToolbarText)
  \/ Observed(ToolbarImage)
  \/ \E k \in 1..MaxPending + 1 : Observed(ImageLoaded(k))
  \/ Observed(OpenModal)
  \/ Observed(SendTablePrompt)
  \/ \E k \in 1..MaxPending + 1, data \in TableData : Observed(TableSuccess(k, data))
  \/ \E id \in 1..MaxIds + 1 : Observed(OnClickBlock(id))
  \/ \E target \in Targets, p \in AnchorPoints : Observed(HandleMouseDownR(target, p))
  \/ \E p \in MovePoints : Observed(HandleMouseMoveR(p))
  \/ Observed(HandleMouseUpR)
  \/ \E id \in 1..MaxIds + 1 : Observed(OnClickBlockR(id))
  \/ Observed(ToolbarIconR)
  \/ Observed(ToolbarTextR)

SpecContent == Init /\ [][NextContent]_vars

\* the table dialog and its request on their own
NextTable ==
  \/ Handler(CreateDefaultBlock)
  \/ Handler(ToolbarDelete)
  \/ Handler(ToolbarIcon)
  \/ \E id \in 1..MaxIds + 1 : Handler(OnClickBlock(id))
  \/ Handler(OpenModal)
  \/ Handler(CancelModal)
  \/ \E text \in PromptTexts : Handler(ChangePromptText(text))
  \/ Handler(SendTablePrompt)
  \/ \E k \in 1..MaxPending + 1, data \in TableData : Handler(TableSuccess(k, data))
  \/ \E k \in 1..MaxPending + 1 : Handler(TableFailure(k))
  \/ DismissAlert /\ UNCHANGED <<updateQueue, history>>

SpecTable == Init /\ [][NextTable]_vars

\* history variable lastEvent: what the step just taken was
Traced(A, ev) ==
  alertLog = "" /\ A /\ lastEvent' = ev /\ UNCHANGED <<updateQueue, overwritten, issued>>

\* what the completion of request k finds: its target gone from the registry,
\* its target the selected block, or its target another block
CompletionEvent(k) ==
  IF pending[k].id = NoId THEN "completionNoTarget"
  ELSE IF pending[k].id \notin Ids(blocks) THEN "completionTargetDeleted"
  ELSE IF pending[k].id = selectedId THEN "completionOnSelected"
  ELSE "completionOnOther"

\* the asynchronous operations of the full variant and what can happen between
\* a request and its completion: selection changes, additions, deletions,
\* moves, resizes, closing the dialog
NextAsync ==
  \/ Traced(CreateDefaultBlock, "createDefaultBlock")
  \/ Traced(ToolbarDelete, "deleteBlock")
  \/ Traced(ToolbarImage, "addImage")
  \/ \E k \in 1..Len(pending) : Traced(ImageLoaded(k), CompletionEvent(k))
  \/ Traced(OpenModal, "openModal")
  \/ Traced(CancelModal, "cancelModal")
  \/ Traced(SendTablePrompt, "sendTablePrompt")
  \/ \E k \in 1..Len(pending) : \E data \in TableData :
       Traced(TableSuccess(k, data), CompletionEvent(k))
  \/ \E k \in 1..Len(pending) : Traced(TableFailure(k), "tableFailure")
  \/ DismissAlert /\ UNCHANGED <<updateQueue, history>>
  \/ \E i \in 1..Len(blocks) : Traced(OnClickBlock(blocks[i].id), "onClick")
  \/ \E i \in 1..Len(blocks) : \E d \in DragPositions :
       Traced(OnDragStop(blocks[i].id, d), "onDragStop")
  \/ \E i \in 1..Len(blocks) : \E sz \in ResizeSizes : \E pos \in DragPositions :
       Traced(OnResizeStop(blocks[i].id, sz, pos), "onResizeStop")

SpecAsync == Init /\ [][NextAsync]_vars

\* a handler that calls setBlocks with a value built from the blocks of its
\* render (setBlocks([...blocks, newBlock]), setBlocks(blocks.filter(...))):
\* React processes the hook's queue in order, so the value replaces whatever
\* the functional updates waiting before it produce
Replacing(A) == alertLog = "" /\ A /\ updateQueue' = <<>> /\ UNCHANGED history

\* the image read of the full variant with its state update rendered in a
\* later task, and the handlers that can be dispatched before that render
NextRace ==
  \/ Replacing(CreateDefaultBlock)
  \/ Replacing(ToolbarDelete)
  \/ Replacing(ToolbarCopy)
  \/ Handler(ToolbarImage)
  \/ \E k \in 1..Len(pending) :
       alertLog = "" /\ ImageLoadedDeferred(k) /\ UNCHANGED history
  \/ Render /\ UNCHANGED history
  \/ \E i \in 1..Len(blocks) : Handler(OnClickBlock(blocks[i].id))
  \/ \E i \in 1..Len(blocks) : \E d \in DragPositions :
       Handler(OnDragStop(blocks[i].id, d))
  \/ \E p \in AnchorPoints : Handler(HandleMouseDown("surface", p))
  \/ \E p \in MovePoints : Handler(HandleMouseMove(p))
  \/ alertLog = "" /\ HandleMouseUp /\ UNCHANGED history
       /\ updateQueue' = IF Committable(selectionPreview) THEN <<>> ELSE updateQueue

SpecRace == Init /\ [][NextRace]_vars

\* the pointer events of both variants, each step recorded in lastEvent
NextGesture ==
  \/ Traced(CreateDefaultBlock, "createDefaultBlock")
  \/ \E target \in Targets, p \in AnchorPoints :
       Traced(HandleMouseDown(target, p),
              IF IgnoredTarget(target) THEN "pointerDownIgnored" ELSE "pointerDown")
  \/ \E p \in MovePoints : Traced(HandleMouseMove(p), "pointerMove")
  \/ Traced(HandleMouseUp, "pointerUp")
  \/ \E i \in 1..Len(blocks) : Traced(OnClickBlock(blocks[i].id), "onClick")
  \/ \E target \in Targets, p \in AnchorPoints :
       Traced(HandleMouseDownR(target, p), "pointerDown")
  \/ \E p \in MovePoints : Traced(HandleMouseMoveR(p), "pointerMove")
  \/ Traced(HandleMouseUpR, "pointerUp")
  \/ \E i \in 1..Len(blocks) : Traced(OnClickBlockR(blocks[i].id), "onClick")

SpecGesture == Init /\ [][NextGesture]_vars

\* what the step does that sets text to the prompt's return value
TextEvent(text) == IF Falsy(text) THEN "addTextCancelled" ELSE "addText"

\* the synchronous content operations of both variants on blocks that were
\* added, drawn, copied or deleted, each step recorded in lastEvent
NextText ==
  \/ Traced(CreateDefaultBlock, "createDefaultBlock")
  \/ Traced(ToolbarDelete, "deleteBlock")
  \/ Traced(ToolbarCopy, "duplicateBlock")
  \/ Traced(ToolbarIcon, "addIcon")
  \/ \E text \in PromptReturns :
       Traced(HasSelectedBlock /\ AddText(SelectedBlock.id, text), TextEvent(text))
  \/ \E i \in 1..Len(blocks) : Traced(OnClickBlock(blocks[i].id), "onClick")
  \/ \E p \in AnchorPoints : Traced(HandleMouseDownR("surface", p), "pointerDown")
  \/ \E p \in MovePoints : Traced(HandleMouseMoveR(p), "pointerMove")
  \/ Traced(HandleMouseUpR, "pointerUp")
  \/ \E i \in 1..Len(blocks) : Traced(OnClickBlockR(blocks[i].id), "onClick")
  \/ Traced(ToolbarIconR, "addIcon")
  \/ \E text \in PromptReturns :
       Traced(HasSelectedBlock /\ AddTextToBlock(SelectedBlock.id, text), TextEvent(text))

SpecText == Init /\ [][NextText]_vars

\* history variable issued: a step that issues a content operation on block id
\* records the id and the type of content
Issuing(A, id, type) ==
  alertLog = "" /\ A /\ issued' = [id |-> id, type |-> type]
    /\ UNCHANGED <<updateQueue, overwritten, lastEvent>>

\* the content operations of the full variant, every request answered
NextOrder ==
  \/ Handler(CreateDefaultBlock)
  \/ Handler(ToolbarDelete)
  \/ \E i \in 1..Len(blocks) : Handler(OnClickBlock(blocks[i].id))
  \/ Issuing(ToolbarIcon, selectedId, "icon")
  \/ \E text \in PromptReturns \ {NullText, ""} :
       Issuing(HasSelectedBlock /\ AddText(SelectedBlock.id, text), selectedId, "text")
  \/ Issuing(ToolbarImage, selectedId, "image")
  \/ \E k \in 1..Len(pending) : Handler(ImageLoaded(k))
  \/ Handler(OpenModal)
  \/ Handler(CancelModal)
  \/ Issuing(SendTablePrompt, selectedId, "table")
  \/ \E k \in 1..Len(pending) : \E data \in TableData : Handler(TableSuccess(k, data))

SpecOrder == Init /\ [][NextOrder]_vars

\* the table prompt dialog of the full variant and the pointer events that
\* reach handleMouseDown while it is open: the overlay and its text area are
\* rendered inside the surface element
NextDialog ==
  \/ Handler(CreateDefaultBlock)
  \/ \E i \in 1..Len(blocks) : Handler(OnClickBlock(blocks[i].id))
  \/ Handler(OpenModal)
  \/ Handler(CancelModal)
  \/ \E text \in PromptTexts : Handler(ChangePromptText(text))
  \/ Handler(SendTablePrompt)
  \/ \E k \in 1..Len(pending) : \E data \in TableData : Handler(TableSuccess(k, data))
  \/ \E k \in 1..Len(pending) : Handler(TableFailure(k))
  \/ DismissAlert /\ UNCHANGED <<updateQueue, history>>
  \/ \E target \in Targets, p \in AnchorPoints : Handler(HandleMouseDown(target, p))
  \/ \E p \in MovePoints : Handler(HandleMouseMove(p))
  \/ Handler(HandleMouseUp)

SpecDialog == Init /\ [][NextDialog]_vars

(* =============================== claims ================================ *)
Last(bs) == bs[Len(bs)]
Prefix(bs, n) == [i \in 1..n |-> bs[i]]
\* a pointer-up: the only step that lowers the drawing flag
PointerUpStep == isSelecting /\ ~isSelecting'
\* a step that appends exactly one block and keeps the others
AppendsOne == Len(blocks') = Len(blocks) + 1 /\ Prefix(blocks', Len(blocks)) = blocks

\* C1: in the full variant every block of the registry has width > 20 and
\* height > 20, whatever operations ran (resize included).
C1_AllBlocksAboveThreshold ==
  Full => \A i \in 1..Len(blocks) : blocks[i].width > 20 /\ blocks[i].height > 20

\* C2: a pointer-up that ends a draw gesture appends exactly one block, with
\* the preview's x, y, width and height and a new id, if and only if the
\* preview exists with width > 20 and height > 20; otherwise the registry is
\* unchanged. Both variants.
C2_CommitIffAboveThreshold ==
  [][PointerUpStep =>
       IF selectionPreview # <<>> /\ selectionPreview[1].width > 20
                                  /\ selectionPreview[1].height > 20
       THEN /\ AppendsOne
            /\ Last(blocks').x = selectionPreview[1].x
            /\ Last(blocks').y = selectionPreview[1].y
            /\ Last(blocks').width = selectionPreview[1].width
            /\ Last(blocks').height = selectionPreview[1].height
            /\ Last(blocks').id \notin Ids(blocks)
       ELSE blocks' = blocks]_vars

\* a 21x21 rectangle was committed and a 20x21 one was not
C2_Witness ==
  /\ ~isSelecting
  /\ \E i \in 1..Len(blocks) : blocks[i].width = 21 /\ blocks[i].height = 21
  /\ \A i \in 1..Len(blocks) : ~(blocks[i].width = 20 /\ blocks[i].height = 21)

\* C3: a pointer-move at point p during a draw gesture anchored at a sets the
\* preview to x = min(a.x, p.x), y = min(a.y, p.y), width = |p.x - a.x|,
\* height = |p.y - a.y| (never negative, whatever the direction); the gesture
\* from (150,150) released at (50,80) commits a block at (50,80) of size 100x70.
C3_PreviewNormalized ==
  [][/\ \A p \in DrawPoints :
          ((HandleMouseMove(p) \/ HandleMouseMoveR(p)) /\ isSelecting /\ startPoint # <<>>) =>
            LET a == startPoint[1]
                pv == selectionPreview'[1]
            IN /\ selectionPreview' # <<>>
               /\ pv.x = (IF a.x <= p.x THEN a.x ELSE p.x)
               /\ pv.y = (IF a.y <= p.y THEN a.y ELSE p.y)
               /\ pv.width = (IF p.x >= a.x THEN p.x - a.x ELSE a.x - p.x)
               /\ pv.height = (IF p.y >= a.y THEN p.y - a.y ELSE a.y - p.y)
               /\ pv.width >= 0 /\ pv.height >= 0
     /\ ((HandleMouseMove(Pt(50, 80)) \/ HandleMouseMoveR(Pt(50, 80)))
           /\ isSelecting /\ startPoint = <<Pt(150, 150)>>) =>
          /\ selectionPreview'[1].x = 50 /\ selectionPreview'[1].y = 80
          /\ selectionPreview'[1].width = 100 /\ selectionPreview'[1].height = 70
     /\ (PointerUpStep /\ selectionPreview # <<>> /\ selectionPreview[1].x = 50
           /\ selectionPreview[1].y = 80 /\ selectionPreview[1].width = 100
           /\ selectionPreview[1].height = 70) =>
          /\ AppendsOne
          /\ Last(blocks').x = 50 /\ Last(blocks').y = 80
          /\ Last(blocks').width = 100 /\ Last(blocks').height = 70]_vars

\* the gesture drawn up and to the left from (150,150) to (50,80) was committed
C3_Witness ==
  \E i \in 1..Len(blocks) :
    blocks[i].x = 50 /\ blocks[i].y = 80 /\ blocks[i].width = 100 /\ blocks[i].height = 70

\* C4: in both variants a pointer-down on an existing block or on a
\* button/input control does not start a draw gesture: the drawing flag, the
\* anchor and the selection are left as they were.
C4_PointerDownOnBlockIgnored ==
  [][\A target \in {"block", "button", "input"}, p \in AnchorPoints :
       (HandleMouseDown(target, p) \/ HandleMouseDownR(target, p)) =>
         /\ isSelecting' = isSelecting
         /\ startPoint' = startPoint
         /\ selectedId' = selectedId]_vars

\* C5: in both variants the block committed by a pointer-up is the selected
\* block right after that pointer-up.
C5_CommittedBlockSelected ==
  [][(PointerUpStep /\ Len(blocks') = Len(blocks) + 1) =>
       selectedId' = Last(blocks').id]_vars

C7_SelectionInRegistry ==
  selectedId = NoId \/ selectedId \in Ids(blocks)

\* a block was deleted and a block that is still there is selected
C7_Witness ==
  /\ Len(blocks) < nextId
  /\ selectedId # NoId
  /\ selectedId \in Ids(blocks)

\* C8: duplicating block B appends one block with an id no block has, at
\* (B.x + 20, B.y + 20), with B's width, height and content; every existing
\* block is unchanged and the new block is selected. The default block is
\* added at (100,100) with size 200x150 and selected, so add, set icon,
\* duplicate gives a second block at (120,120) with the icon.
C8_DuplicateFrame ==
  [][/\ \A i \in 1..MaxIds + 1 :
          (i <= Len(blocks) /\ DuplicateBlock(blocks[i])) =>
          LET B == blocks[i]
              n == Last(blocks')
          IN /\ AppendsOne
             /\ n.id \notin Ids(blocks)
             /\ n.x = B.x + 20 /\ n.y = B.y + 20
             /\ n.width = B.width /\ n.height = B.height
             /\ n.content = B.content
             /\ selectedId' = n.id
     /\ CreateDefaultBlock =>
          /\ AppendsOne
          /\ Last(blocks').x = 100 /\ Last(blocks').y = 100
          /\ Last(blocks').width = 200 /\ Last(blocks').height = 150
          /\ Last(blocks').id \notin Ids(blocks)
          /\ selectedId' = Last(blocks').id]_vars

\* default block with the icon, and its selected copy at (120,120) with the icon
C8_Witness ==
  /\ Len(blocks) = 2
  /\ blocks[1].x = 100 /\ blocks[1].y = 100
  /\ blocks[1].content = [type |-> "icon", data |-> IconData]
  /\ blocks[2].x = 120 /\ blocks[2].y = 120
  /\ blocks[2].width = 200 /\ blocks[2].height = 150
  /\ blocks[2].content = blocks[1].content
  /\ blocks[2].id # blocks[1].id
  /\ selectedId = blocks[2].id

\* the registry after content c was assigned to the block with this id
C9_Assigned(id, c) ==
  /\ Len(blocks') = Len(blocks)
  /\ \A i \in 1..Len(blocks) :
       /\ blocks'[i].id = blocks[i].id
       /\ blocks'[i].x = blocks[i].x /\ blocks'[i].y = blocks[i].y
       /\ blocks'[i].width = blocks[i].width /\ blocks'[i].height = blocks[i].height
       /\ blocks'[i].content = (IF blocks[i].id = id THEN c ELSE blocks[i].content)

\* C9: every content assignment (icon, text, image completion, table
\* completion) leaves the target block with exactly the assigned content,
\* whatever it held before, and leaves id, x, y, width and height unchanged.
C9_ContentReplaced ==
  [][/\ \A id \in 1..MaxIds + 1 :
          (AddIcon(id) \/ AddIconToBlock(id)) =>
             C9_Assigned(id, [type |-> "icon", data |-> IconData])
     /\ \A id \in 1..MaxIds + 1, text \in PromptReturns \ {NullText, ""} :
          (AddText(id, text) \/ AddTextToBlock(id, text)) =>
             C9_Assigned(id, [type |-> "text", data |-> text])
     /\ \A k \in 1..MaxPending + 1 :
          ImageLoaded(k) =>
             C9_Assigned(pending[k].id, [type |-> "image", data |-> DataUrlOf(pending[k].data)])
     /\ \A k \in 1..MaxPending + 1, data \in TableData :
          TableSuccess(k, data) =>
             C9_Assigned(pending[k].id, [type |-> "table", data |-> data])]_vars

\* a block that held the icon now holds exactly the table that replaced it
C9_Witness ==
  \E i \in 1..Len(blocks) :
    /\ overwritten.id = blocks[i].id
    /\ overwritten.content = [type |-> "icon", data |-> IconData]
    /\ blocks[i].content \in {[type |-> "table", data |-> d] : d \in TableData}

\* C10: a failed table request changes no block, shows the error alert,
\* and leaves the dialog's open/closed state and the prompt text as they were;
\* once the alert is closed an open dialog can be cancelled.
C10_TableFailureFrame ==
  /\ [][\A k \in 1..MaxPending + 1 :
          TableFailure(k) =>
            /\ blocks' = blocks
            /\ alertLog' = "Backend error generating table"
            /\ showModal' = showModal
            /\ promptText' = promptText]_vars
  /\ []((showModal /\ alertLog = "") => ENABLED CancelModal)

\* the alert is up, the dialog is still open with its prompt, and the selected
\* block still holds the icon it held before
C10_Witness ==
  /\ alertLog # ""
  /\ showModal
  /\ promptText = "planets"
  /\ HasSelectedBlock
  /\ SelectedBlock.content.type = "icon"

\* C11: when the target block of a pending image read or table request has
\* been deleted before the completion runs, the completion leaves the registry
\* as it is (same blocks, same order, same fields, the deleted block not
\* re-created) and raises no error.
C11_StaleCompletionNoOp ==
  [][\A k \in 1..Len(pending) :
       ( /\ pending[k].id # NoId
         /\ pending[k].id \notin Ids(blocks)
         /\ (ImageLoaded(k) \/ \E data \in TableData : TableSuccess(k, data)) )
       => (blocks' = blocks /\ alertLog' = "")]_vars

\* a completion has just run whose target had been deleted, and the registry
\* still holds another block
C11_Witness ==
  /\ lastEvent = "completionTargetDeleted"
  /\ blocks # <<>>
  /\ Len(blocks) < nextId
  /\ alertLog = ""

\* C12: a successful completion sets the content of exactly the block whose
\* id was the target when the request was issued (the id passed to the image
\* read, the block selected when Generate was pressed), if that block still
\* exists, whatever was selected, added, deleted, moved or resized and whether
\* the dialog was closed in between; no other block is changed.
C12_CompletionHitsRequestTarget ==
  [][/\ (ToolbarImage \/ SendTablePrompt) =>
          /\ Len(pending') = Len(pending) + 1
          /\ Last(pending').id = selectedId
     /\ Len(pending') >= Len(pending) => Prefix(pending', Len(pending)) = pending
     /\ Len(pending') < Len(pending) =>
          \E k \in 1..Len(pending) : pending' = RemoveAt(pending, k)
     /\ \A k \in 1..Len(pending) :
          ( /\ pending[k].id \in Ids(blocks)
            /\ (ImageLoaded(k) \/ \E data \in TableData : TableSuccess(k, data)) )
          => /\ Len(blocks') = Len(blocks)
             /\ \A i \in 1..Len(blocks) :
                  IF blocks[i].id = pending[k].id
                  THEN blocks'[i].content.type = pending[k].kind
                  ELSE blocks'[i] = blocks[i]]_vars

\* a table response has just arrived while another block was selected: the
\* block selected at request time holds the table, the selected one nothing
C12_Witness ==
  /\ lastEvent = "completionOnOther"
  /\ HasSelectedBlock
  /\ SelectedBlock.content = NoContent
  /\ \E i \in 1..Len(blocks) :
       blocks[i].id # selectedId /\ blocks[i].content.type = "table"

\* C13: no update is lost across an asynchronous boundary: what was changed
\* in the registry between a request and its completion is still there after
\* the completion, and what a completion changed is still there after any
\* later default add, draw commit, duplicate or delete of another block.
C13_NoLostUpdate ==
  [][LET before == ApplyQueue(updateQueue, blocks)
         after == ApplyQueue(updateQueue', blocks')
     IN /\ Len(after) > Len(before) => Prefix(after, Len(before)) = before
        /\ Len(after) < Len(before) =>
             \A j \in 1..Len(after) : \E i \in 1..Len(before) : after[j] = before[i]
        /\ \A k \in 1..Len(pending) :
             ImageLoadedDeferred(k) =>
               /\ Len(after) = Len(before)
               /\ \A i \in 1..Len(before) :
                    \/ after[i] = before[i]
                    \/ /\ before[i].id = pending[k].id
                       /\ after[i] = [before[i] EXCEPT !.content = after[i].content]]_vars

\* C14: in either variant a pointer-down on the empty surface followed
\* directly by a pointer-up, with no pointer-move in between, adds no block:
\* no preview left over from before is committed.
C14_ClickAddsNoBlock ==
  [][(lastEvent = "pointerDown" /\ (HandleMouseUp \/ HandleMouseUpR))
       => blocks' = blocks]_vars

\* C15: set text with a cancelled or empty prompt leaves the whole state as
\* it is (registry, selection, draw state, dialog state) and raises no error.
C15_CancelledTextNoOp ==
  [][\A id \in 0..nextId, text \in {NullText, ""} :
       (AddText(id, text) \/ AddTextToBlock(id, text)) =>
          UNCHANGED <<variant, blocks, selectedId, showModal, promptText, isSelecting,
                      startPoint, selectionPreview, pending, alertLog, nextId,
                      updateQueue>>]_vars

\* the prompt has just been cancelled or left empty and the selected block
\* still holds the text it was given before
C15_Witness ==
  /\ lastEvent = "addTextCancelled"
  /\ HasSelectedBlock
  /\ SelectedBlock.content = [type |-> "text", data |-> "hello"]
  /\ alertLog = ""

\* C16: the ids of the blocks in the registry are pairwise distinct, no
\* block of the registry has the preview's id "temp", and no operation
\* changes the id of a block that is already there.
C16_IdsDistinctAndStable ==
  /\ [](/\ \A i, j \in 1..Len(blocks) : blocks[i].id = blocks[j].id => i = j
        /\ \A i \in 1..Len(blocks) : blocks[i].id # TempId)
  /\ [][/\ Len(blocks') >= Len(blocks) =>
             \A i \in 1..Len(blocks) : blocks'[i].id = blocks[i].id
        /\ Len(blocks') < Len(blocks) => Ids(blocks') \subseteq Ids(blocks)]_vars

\* the registry holds a block committed from a drawn preview and its
\* duplicate, under two ids
C16_Witness ==
  /\ Len(blocks) = 2
  /\ blocks[1].width = 100 /\ blocks[1].height = 70
  /\ blocks[2] = DuplicateOf(blocks[1], blocks[2].id)
  /\ blocks[1].id # blocks[2].id

\* C17: every registry operation keeps the relative order of the blocks it
\* neither creates nor removes: default add, draw commit and duplicate put
\* the new block at the end, delete removes one block and keeps the others
\* in order, and move, resize and content assignment keep the sequence of ids
\* and change only x, y (move), x, y, width, height (resize) or content of
\* the target, every other block staying as it is.
C17_OrderAndFrame ==
  [][/\ Len(blocks') \in {Len(blocks) - 1, Len(blocks), Len(blocks) + 1}
     /\ Len(blocks') = Len(blocks) + 1 => Prefix(blocks', Len(blocks)) = blocks
     /\ Len(blocks') = Len(blocks) - 1 =>
          \E k \in 1..Len(blocks) : blocks' = RemoveAt(blocks, k)
     /\ Len(blocks') = Len(blocks) =>
          /\ \A i \in 1..Len(blocks) : blocks'[i].id = blocks[i].id
          /\ \E id \in Ids(blocks) \cup {NoId} :
               \A i \in 1..Len(blocks) : blocks[i].id # id => blocks'[i] = blocks[i]
          /\ \A i \in 1..Len(blocks) :
               blocks'[i].content # blocks[i].content =>
                 blocks'[i] = [blocks[i] EXCEPT !.content = blocks'[i].content]
     /\ \A id \in Ids(blocks), d \in DragPositions :
          OnDragStop(id, d) =>
            \A i \in 1..Len(blocks) :
              blocks'[i] = IF blocks[i].id = id
                           THEN [blocks[i] EXCEPT !.x = blocks'[i].x, !.y = blocks'[i].y]
                           ELSE blocks[i]
     /\ \A id \in Ids(blocks), sz \in ResizeSizes, pos \in DragPositions :
          OnResizeStop(id, sz, pos) =>
            \A i \in 1..Len(blocks) :
              blocks'[i] = IF blocks[i].id = id
                           THEN [blocks[i] EXCEPT !.x = blocks'[i].x, !.y = blocks'[i].y,
                                                  !.width = blocks'[i].width,
                                                  !.height = blocks'[i].height]
                           ELSE blocks[i]]_vars

\* the first of two blocks has been moved and given content and is still
\* the first, the second is as it was created
C17_Witness ==
  /\ Len(blocks) = 2
  /\ blocks[1].id = 1 /\ blocks[1].x = 30 /\ blocks[1].y = 40
  /\ blocks[1].content # NoContent
  /\ blocks[2] = [id |-> 2, x |-> DefaultX, y |-> DefaultY, width |-> DefaultWidth,
                  height |-> DefaultHeight, content |-> NoContent]

\* C18: in both variants a preview exists only while the drawing flag is set
\* and an anchor is recorded; a pointer-down on the empty surface sets the
\* flag, records the anchor and clears the selection; after every pointer-up
\* the flag is false and there is no preview.
C18_GestureStateConsistent ==
  /\ [](selectionPreview # <<>> => (isSelecting /\ startPoint # <<>>))
  /\ [][/\ \A p \in AnchorPoints :
             (HandleMouseDown("surface", p) \/ HandleMouseDownR("surface", p)) =>
                (isSelecting' /\ startPoint' = <<p>> /\ selectedId' = NoId)
        /\ (HandleMouseUp \/ HandleMouseUpR) =>
             (~isSelecting' /\ selectionPreview' = <<>>)]_vars

\* a gesture is in progress over a selected-then-deselected registry: the
\* flag is set, the anchor recorded, a preview too small to commit is shown
C18_Witness ==
  /\ isSelecting
  /\ startPoint = <<Pt(150, 150)>>
  /\ selectionPreview # <<>>
  /\ ~Committable(selectionPreview)
  /\ selectedId = NoId
  /\ blocks # <<>>

\* the type of the content block id holds
ContentTypeOf(id) == (CHOOSE b \in {blocks[i] : i \in 1..Len(blocks)} : b.id = id).content.type

\* C19: when content operations are issued one after the other on the same
\* block and an image read or table request is among them, then once every
\* pending completion has run the block holds the content of the operation
\* issued last.
C19_LastIssuedWins ==
  (pending = <<>> /\ issued.id \in Ids(blocks))
    => ContentTypeOf(issued.id) = issued.type

\* C20: whenever the table prompt dialog is open a block is selected (the
\* selection is not null and is the id of a block of the registry), so no
\* table request is in flight without a target block.
C20_DialogHasTarget ==
  /\ showModal => (selectedId # NoId /\ selectedId \in Ids(blocks))
  /\ \A k \in 1..Len(pending) : pending[k].kind = "table" => pending[k].id # NoId

====
